---- MODULE Spec2Model ----
(***************************************************************************)
(* Model of app.py: the heat-loss estimator and furnace selector.          *)
(*                                                                         *)
(* One evaluation pass of the script is a run of the state machine: the    *)
(* widget values are chosen in Init, then the script computes the heat     *)
(* loss, scans the catalogue (one loop iteration per step), decides the    *)
(* cascade, walks the recommended model's curve (one sample per step) and  *)
(* assembles the report.                                                   *)
(*                                                                         *)
(* Numbers.  Python computes in binary floating point; the model computes  *)
(* in exact rational arithmetic.  A number is a pair <<n, d>> with d > 0   *)
(* and gcd(|n|, d) = 1, so 0.5 is <<1, 2>> and 19.5 is <<39, 2>>.  Time is *)
(* in hours, power in kW, energy in kWh, as in the source.  Rounding error *)
(* of the floating-point operations is outside the model.                  *)
(***************************************************************************)
EXTENDS Integers, Sequences, FiniteSets

(***************************************************************************)
(* Exact rational arithmetic standing for Python's float operators.        *)
(***************************************************************************)
Abs(x) == IF x < 0 THEN -x ELSE x

RECURSIVE GCD(_, _)
GCD(a, b) == IF b = 0 THEN a ELSE GCD(b, a % b)

\* The number n/d (d > 0) in lowest terms.
RNorm(n, d) ==
    LET g == GCD(Abs(n), d) IN <<n \div g, d \div g>>

Num(n) == <<n, 1>>
Zero == Num(0)
One == Num(1)
Half == <<1, 2>>

RNeg(a) == <<-a[1], a[2]>>

RAdd(a, b) ==
    LET g == GCD(a[2], b[2])
    IN RNorm(a[1] * (b[2] \div g) + b[1] * (a[2] \div g), (a[2] \div g) * b[2])

RSub(a, b) == RAdd(a, RNeg(b))

\* Cross-reduced product, so intermediate values stay small.
RMul(a, b) ==
    LET g1 == GCD(Abs(a[1]), b[2])
        g2 == GCD(Abs(b[1]), a[2])
    IN IF a[1] = 0 \/ b[1] = 0 THEN Zero
       ELSE <<(a[1] \div g1) * (b[1] \div g2), (a[2] \div g2) * (b[2] \div g1)>>

\* a / b for b # 0 (Python raises ZeroDivisionError for b = 0: every use
\* below decides that case before dividing).
RDiv(a, b) ==
    RMul(a, IF b[1] > 0 THEN <<b[2], b[1]>> ELSE <<-b[2], -b[1]>>)

\* a/b <= c/d for a, c >= 0 and b, d > 0, by comparing the continued
\* fractions: exact, and free of the cross products a*d and c*b.
RECURSIVE FracLeq(_, _, _, _)
FracLeq(a, b, c, d) ==
    LET qa == a \div b
        qc == c \div d
        ra == a % b
        rc == c % d
    IN IF qa # qc THEN qa < qc
       ELSE IF ra = 0 THEN TRUE
       ELSE IF rc = 0 THEN FALSE
       ELSE FracLeq(d, rc, b, ra)

\* x <= y on rationals of any sign.
RLeq(x, y) ==
    IF x[1] < 0
    THEN IF y[1] >= 0 THEN TRUE ELSE FracLeq(-y[1], y[2], -x[1], x[2])
    ELSE IF y[1] < 0 THEN FALSE ELSE FracLeq(x[1], x[2], y[1], y[2])

RGeq(x, y) == RLeq(y, x)
RLt(x, y) == ~RLeq(y, x)
RGt(x, y) == ~RLeq(x, y)

RMax(x, y) == IF RGeq(x, y) THEN x ELSE y

\* int(x) truncates, which is the floor for x >= 0.
RFloor(x) == x[1] \div x[2]

\* math.sqrt on the perfect squares the model feeds it.
Sqrt(x) == Num(CHOOSE s \in 0..x[1] : s * s = x[1])

(***************************************************************************)
(* Reference tables.                                                       *)
(***************************************************************************)
None == "None"

\* The catalogue, in the dict's insertion order (the order the scan visits).
MUSSON_MODELS ==
    << [name |-> "Musson 300",  volume_l |-> 77,  duct_count |-> 2, duct_diameter_mm |-> 133],
       [name |-> "Musson 600",  volume_l |-> 125, duct_count |-> 3, duct_diameter_mm |-> 133],
       [name |-> "Musson 1000", volume_l |-> 200, duct_count |-> 3, duct_diameter_mm |-> 133],
       [name |-> "Musson 1500", volume_l |-> 311, duct_count |-> 4, duct_diameter_mm |-> 133],
       [name |-> "Musson 2000", volume_l |-> 467, duct_count |-> 4, duct_diameter_mm |-> 159] >>

\* Density (kg/m3) and lower heating value (MJ/kg) of the wood species.
WOOD_TYPES ==
    [ Conifer |-> [density |-> Num(350), q_mj_kg |-> Num(17)],
      Birch   |-> [density |-> Num(450), q_mj_kg |-> Num(18)],
      Oak     |-> [density |-> Num(550), q_mj_kg |-> <<39, 2>>] ]

\* Thermal conductivity of the wall materials, W/(m K).
MATERIALS ==
    [ Brick         |-> <<81, 100>>,
      AeratedBlock  |-> <<3, 25>>,
      Timber        |-> <<9, 50>>,
      SandwichPanel |-> <<1, 25>>,
      MineralWool   |-> <<9, 200>>,
      OSB           |-> <<13, 100>>,
      SteelSheet    |-> Num(58) ]

\* The select-box entry of the layered wall; it is no key of MATERIALS.
MineralWoolClad == "MineralWoolClad"

\* Surface resistances, (m2 K)/W.
R_SI == <<13, 100>>
R_SE == <<1, 25>>

floor_r_val == <<5, 2>>
ceiling_r_val == <<7, 2>>

\* The 20 % margin of required_power_with_margin.
Margin == <<6, 5>>

(***************************************************************************)
(* calculate_wall_r_value                                                  *)
(***************************************************************************)
calculate_wall_r_value(material_type, wall_thickness_m, min_wool_thickness_m) ==
    LET r_osb == RDiv(<<9, 1000>>, MATERIALS.OSB)
        r_wool == RDiv(min_wool_thickness_m, MATERIALS.MineralWool)
        r_steel == RDiv(<<1, 2000>>, MATERIALS.SteelSheet)
        lambda_wall == IF material_type \in DOMAIN MATERIALS
                       THEN MATERIALS[material_type] ELSE <<81, 100>>
        r_layers == IF material_type = MineralWoolClad
                    THEN RAdd(RAdd(r_osb, r_wool), r_steel)
                    ELSE RDiv(wall_thickness_m, lambda_wall)
    IN RAdd(RAdd(R_SI, r_layers), R_SE)

(***************************************************************************)
(* calculate_heat_loss                                                     *)
(***************************************************************************)
\* Variant: the early return left out.
NoHeatingNeededOmitted(delta_t) == FALSE

\* The early return: no heating is needed.
NoHeatingNeeded(delta_t) == delta_t <= 0

calculate_heat_loss(area, height, wall_r_value, floor_r_value, ceiling_r_value, t_in, t_out) ==
    LET delta_t == t_in - t_out
        perimeter == RMul(Num(2), RAdd(Sqrt(area), Sqrt(area)))
        wall_area == RMul(perimeter, height)
        floor_area == area
        ceiling_area == area
        q_walls == RDiv(RMul(wall_area, Num(delta_t)), wall_r_value)
        q_floor == RDiv(RMul(floor_area, Num(delta_t)), floor_r_value)
        q_ceiling == RDiv(RMul(ceiling_area, Num(delta_t)), ceiling_r_value)
        total_q_w == RAdd(RAdd(q_walls, q_floor), q_ceiling)
    IN IF NoHeatingNeeded(delta_t) THEN Zero
       ELSE RDiv(total_q_w, Num(1000))

(***************************************************************************)
(* get_furnace_power_curve                                                 *)
(***************************************************************************)
\* Usable energy of one charge, kWh.
ChargeEnergy(volume_l, fill_fraction, wood_type, efficiency) ==
    LET vol_m3 == RDiv(Num(volume_l), Num(1000))
        filled_vol_m3 == RMul(vol_m3, fill_fraction)
        m_wood == RMul(filled_vol_m3, WOOD_TYPES[wood_type].density)
        q_fuel_mj == RMul(m_wood, WOOD_TYPES[wood_type].q_mj_kg)
    IN RMul(RDiv(q_fuel_mj, <<18, 5>>), efficiency)

\* total_kwh / burn_hours if burn_hours > 0 else 0
AvgPower(total_kwh, burn_hours) ==
    IF RGt(burn_hours, Zero) THEN RDiv(total_kwh, burn_hours) ELSE Zero

\* Variant: the peak is not doubled.
PeakPowerNoDouble(avg_power_kw) == avg_power_kw

PeakPower(avg_power_kw) == RMul(avg_power_kw, Num(2))

\* Variant: range(int(burn_hours * 2)), the closing sample left out.
TimePointsShort(burn_hours) ==
    [i \in 1..RFloor(RMul(burn_hours, Num(2))) |-> RMul(Num(i - 1), Half)]

\* [i * 0.5 for i in range(int(burn_hours * 2) + 1)]
TimePoints(burn_hours) ==
    [i \in 1..(RFloor(RMul(burn_hours, Num(2))) + 1) |-> RMul(Num(i - 1), Half)]

\* max(0, peak_power_kw * (1 - t / burn_hours)), for burn_hours # 0
PowerAt(peak_power_kw, t, burn_hours) ==
    RMax(Zero, RMul(peak_power_kw, RSub(One, RDiv(t, burn_hours))))

\* The result, or raised = TRUE when the function leaves by an exception:
\* t / burn_hours raises ZeroDivisionError in the first pass of the loop
\* when burn_hours is 0.
get_furnace_power_curve(volume_l, fill_fraction, wood_type, efficiency, burn_hours) ==
    LET total_kwh == ChargeEnergy(volume_l, fill_fraction, wood_type, efficiency)
        avg_power_kw == AvgPower(total_kwh, burn_hours)
        peak_power_kw == PeakPower(avg_power_kw)
        time_points == TimePoints(burn_hours)
    IN IF Len(time_points) > 0 /\ burn_hours = Zero
       THEN [raised |-> TRUE, time |-> <<>>, power |-> <<>>, total_kwh |-> total_kwh]
       ELSE [raised |-> FALSE,
             time |-> time_points,
             power |-> [i \in 1..Len(time_points) |->
                           PowerAt(peak_power_kw, time_points[i], burn_hours)],
             total_kwh |-> total_kwh]

(***************************************************************************)
(* The recommendation engine's decisions.                                  *)
(***************************************************************************)
\* avg_power >= required_power_with_margin
Qualifies(avg_power, required) == RGeq(avg_power, required)

\* Variant: the load is not looked at, any more powerful model is taken.
SelectsAnyBetter(avg_power, required, best) == RGt(avg_power, best)

\* Variant: the first qualifying model is kept (the smallest sufficient one).
SelectsFirstQualifying(avg_power, required, best) ==
    Qualifies(avg_power, required) /\ best = Zero

\* Variant: the comparison with the best so far is turned round.
SelectsReversed(avg_power, required, best) ==
    Qualifies(avg_power, required) /\ RLt(avg_power, best)

\* The test of the scan that makes a model the recommendation.
Selects(avg_power, required, best) ==
    Qualifies(avg_power, required) /\ RGt(avg_power, best)

\* max(all_models_data, key=avg_power): the first entry of greatest avg_power.
MostPowerful(data) ==
    data[CHOOSE i \in 1..Len(data) :
            /\ \A j \in 1..Len(data) : RLeq(data[j].avg_power, data[i].avg_power)
            /\ \A j \in 1..(i - 1) : RLt(data[j].avg_power, data[i].avg_power)]

\* Largest cascade the model's inputs can ask for.
MaxFurnaces == 8

\* Variant: math.floor in place of math.ceil.
NumFurnacesFloor(required, avg_power) ==
    CHOOSE n \in 0..MaxFurnaces :
        /\ RLeq(RMul(Num(n), avg_power), required)
        /\ \A m \in (n + 1)..MaxFurnaces : RGt(RMul(Num(m), avg_power), required)

\* math.ceil(required_power_with_margin / most_powerful['avg_power']), for
\* avg_power > 0 and required >= 0: the least integer n with
\* n >= required / avg_power.  (The quotient itself would need products
\* beyond TLC's 32-bit integers.)
NumFurnaces(required, avg_power) ==
    CHOOSE n \in 0..MaxFurnaces :
        /\ RLeq(required, RMul(Num(n), avg_power))
        /\ \A m \in 0..(n - 1) : RGt(required, RMul(Num(m), avg_power))

NoCascade == [count |-> 0, model |-> None]

\* Variant: the cascade is offered as an alternative in every evaluation
\* with a heat loss, whatever the recommendation, for any count >= 1.
CascadeOptionAlways(recommended, heat_loss, required, data) ==
    IF RGt(heat_loss, Zero)
    THEN LET most_powerful == MostPowerful(data)
         IN IF RGt(most_powerful.avg_power, Zero)
            THEN LET num_furnaces == NumFurnaces(required, most_powerful.avg_power)
                 IN IF num_furnaces >= 1
                    THEN [count |-> num_furnaces, model |-> most_powerful.model]
                    ELSE NoCascade
            ELSE NoCascade
    ELSE NoCascade

\* The cascade fallback: the suggestion, or NoCascade for Python's None.
CascadeOption(recommended, heat_loss, required, data) ==
    IF recommended = None /\ RGt(heat_loss, Zero)
    THEN LET most_powerful == MostPowerful(data)
         IN IF RGt(most_powerful.avg_power, Zero)
            THEN LET num_furnaces == NumFurnaces(required, most_powerful.avg_power)
                 IN IF num_furnaces > 1
                    THEN [count |-> num_furnaces, model |-> most_powerful.model]
                    ELSE NoCascade
            ELSE NoCascade
    ELSE NoCascade

\* next(item for item in all_models_data if item["model"] == recommended_model)
RecModelData(data, recommended) ==
    data[CHOOSE i \in 1..Len(data) :
            /\ data[i].model = recommended
            /\ \A j \in 1..(i - 1) : data[j].model # recommended]

\* Variant: p > required_power_with_margin.
StillMeetsStrict(p, required) == RGt(p, required)

\* p >= required_power_with_margin, the test of the refuel walk.
StillMeets(p, required) == RGeq(p, required)

(***************************************************************************)
(* Input values of one evaluation pass.  They cover the sidebar's ranges   *)
(* and the degenerate values the functions accept (no temperature          *)
(* difference, an empty chamber, a burn duration of 0 or off the 0.5 h     *)
(* grid).                                                                  *)
(***************************************************************************)
\* Largest room side in metres; rooms are square, area = side * side.
MaxSide == 30

Sides == {2, 10, MaxSide}
Heights == {<<5, 2>>}
Walls == { [material |-> "Brick", thickness_cm |-> 40],
           [material |-> "SandwichPanel", thickness_cm |-> 10] }
IndoorTemps == {22}
OutdoorTemps == {-20, 22, 30}
WoodNames == DOMAIN WOOD_TYPES
FillFractions == {Half, One}
\* An empty chamber: below the slider's range, accepted by the function.
EmptyFill == Zero
Efficiencies == {<<7, 10>>, <<17, 20>>}
\* The select box offers 2, 4, 6, 8, 12, 18 and 24 hours.
AllowedBurnHours == {Num(2), Num(4), Num(6), Num(8), Num(12), Num(18), Num(24)}
\* Durations the function accepts beyond those: 0, and one off the 0.5 h grid.
OtherBurnHours == {Zero, <<3, 4>>}

VARIABLES
    area, height, material_type, thickness_cm, t_in, t_out,
    wood_type, fill_fraction, efficiency, burn_hours,
    pc,
    heat_loss_kw, required_power_with_margin,
    all_models_data, recommended_model, best_model_avg_power,
    cascade_option, refuel_time, walk_pos, report_refuel_time

inputs == <<area, height, material_type, thickness_cm, t_in, t_out,
            wood_type, fill_fraction, efficiency, burn_hours>>

vars == <<inputs, pc, heat_loss_kw, required_power_with_margin,
          all_models_data, recommended_model, best_model_avg_power,
          cascade_option, refuel_time, walk_pos, report_refuel_time>>

Init ==
    /\ area \in {Num(s * s) : s \in Sides}
    /\ height \in Heights
    /\ \E w \in Walls : material_type = w.material /\ thickness_cm = w.thickness_cm
    /\ t_in \in IndoorTemps
    /\ t_out \in OutdoorTemps
    /\ wood_type \in WoodNames
    /\ (fill_fraction \in FillFractions \/ fill_fraction = EmptyFill)
    /\ efficiency \in Efficiencies
    /\ (burn_hours \in AllowedBurnHours \/ burn_hours \in OtherBurnHours)
    /\ pc = "start"
    /\ heat_loss_kw = Zero
    /\ required_power_with_margin = Zero
    /\ all_models_data = <<>>
    /\ recommended_model = None
    /\ best_model_avg_power = Zero
    /\ cascade_option = NoCascade
    /\ refuel_time = Zero
    /\ walk_pos = 1
    /\ report_refuel_time = Zero

\* Lines 185-194: wall resistance, heat loss and the load with margin.
ComputeHeatLoss ==
    /\ pc = "start"
    /\ LET wall_thickness_m == RDiv(Num(thickness_cm), Num(100))
           min_wool_thickness_m == IF material_type = MineralWoolClad
                                   THEN RDiv(Num(thickness_cm), Num(100))
                                   ELSE <<1, 20>>
           wall_r_val == calculate_wall_r_value(material_type, wall_thickness_m,
                                                min_wool_thickness_m)
           loss == calculate_heat_loss(area, height, wall_r_val, floor_r_val,
                                       ceiling_r_val, t_in, t_out)
       IN /\ heat_loss_kw' = loss
          /\ required_power_with_margin' = RMul(loss, Margin)
    /\ pc' = "scan"
    /\ UNCHANGED <<inputs, all_models_data, recommended_model, best_model_avg_power,
                   cascade_option, refuel_time, walk_pos, report_refuel_time>>

\* One iteration of the loop over MUSSON_MODELS (lines 209-223).  An
\* exception of get_furnace_power_curve ends the script run.
ScanStep ==
    /\ pc = "scan"
    /\ LET k == Len(all_models_data) + 1
           params == MUSSON_MODELS[k]
           curve == get_furnace_power_curve(params.volume_l, fill_fraction,
                                            wood_type, efficiency, burn_hours)
           avg_power == AvgPower(curve.total_kwh, burn_hours)
       IN IF curve.raised
          THEN /\ pc' = "raised"
               /\ UNCHANGED <<all_models_data, recommended_model, best_model_avg_power>>
          ELSE /\ all_models_data' =
                      Append(all_models_data,
                             [model |-> params.name, time |-> curve.time,
                              power |-> curve.power, avg_power |-> avg_power])
               /\ IF Selects(avg_power, required_power_with_margin, best_model_avg_power)
                  THEN /\ recommended_model' = params.name
                       /\ best_model_avg_power' = avg_power
                  ELSE UNCHANGED <<recommended_model, best_model_avg_power>>
               /\ pc' = IF k = Len(MUSSON_MODELS) THEN "cascade" ELSE "scan"
    /\ UNCHANGED <<inputs, heat_loss_kw, required_power_with_margin,
                   cascade_option, refuel_time, walk_pos, report_refuel_time>>

\* Lines 234-252: the cascade fallback, then refuel_time = 0 before the walk.
CascadeStep ==
    /\ pc = "cascade"
    /\ cascade_option' = CascadeOption(recommended_model, heat_loss_kw,
                                       required_power_with_margin, all_models_data)
    /\ refuel_time' = Zero
    /\ pc' = IF recommended_model # None THEN "refuel" ELSE "report"
    /\ UNCHANGED <<inputs, heat_loss_kw, required_power_with_margin, all_models_data,
                   recommended_model, best_model_avg_power, walk_pos, report_refuel_time>>

\* One pass of the loop over zip(time, power) (lines 253-257): keep the
\* sample's time while the power meets the load, break at the first that
\* does not.
WalkStep ==
    /\ pc = "refuel"
    /\ LET rec_model_data == RecModelData(all_models_data, recommended_model)
           t == rec_model_data.time[walk_pos]
           p == rec_model_data.power[walk_pos]
       IN IF StillMeets(p, required_power_with_margin)
          THEN /\ refuel_time' = t
               /\ walk_pos' = walk_pos + 1
               /\ pc' = IF walk_pos = Len(rec_model_data.time) THEN "report" ELSE "refuel"
          ELSE /\ pc' = "report"
               /\ UNCHANGED <<refuel_time, walk_pos>>
    /\ UNCHANGED <<inputs, heat_loss_kw, required_power_with_margin, all_models_data,
                   recommended_model, best_model_avg_power, cascade_option,
                   report_refuel_time>>

\* Line 319: the report takes refuel_time if recommended_model else 0.
Report ==
    /\ pc = "report"
    /\ report_refuel_time' = IF recommended_model # None THEN refuel_time ELSE Zero
    /\ pc' = "done"
    /\ UNCHANGED <<inputs, heat_loss_kw, required_power_with_margin, all_models_data,
                   recommended_model, best_model_avg_power, cascade_option,
                   refuel_time, walk_pos>>

Next ==
    \/ ComputeHeatLoss
    \/ ScanStep
    \/ CascadeStep
    \/ WalkStep
    \/ Report

Spec == Init /\ [][Next]_vars

(***************************************************************************)
(* Properties.                                                             *)
(***************************************************************************)
ScanDone == pc \in {"cascade", "refuel", "report", "done"}
WalkDone == pc \in {"report", "done"}

Entries == 1..Len(all_models_data)

\* Indices of the scanned models whose average power covers the load.
QualifyingEntries ==
    {i \in Entries :
        RLeq(required_power_with_margin, all_models_data[i].avg_power)}

\* Index of the recommended model's entry (there is one when a model is
\* recommended).
RecEntry == CHOOSE i \in Entries : all_models_data[i].model = recommended_model

\* Greatest average power over the scanned models.
TopAvgPower ==
    LET i == CHOOSE k \in Entries :
                 \A j \in Entries :
                     RLeq(all_models_data[j].avg_power, all_models_data[k].avg_power)
    IN all_models_data[i].avg_power

\* C1: a recommended model always qualifies (its average power is at least
\* the load with margin), and once the scan is over it has the greatest
\* average power of all qualifying models.
C1_RecommendedQualifiesAndIsGreatest ==
    recommended_model # None =>
        /\ RecEntry \in QualifyingEntries
        /\ ScanDone =>
              \A i \in QualifyingEntries :
                  RLeq(all_models_data[i].avg_power,
                       all_models_data[RecEntry].avg_power)

\* C1 witness: the scan ended with a recommendation while another model
\* qualified too and a third did not.
C1_Witness ==
    /\ pc = "done"
    /\ recommended_model # None
    /\ \E i \in QualifyingEntries : i # RecEntry
    /\ \E i \in Entries : i \notin QualifyingEntries

\* C2 as stated: the recommended model is the qualifying model of lowest
\* average power.
C2_RecommendedIsLowestQualifying ==
    (ScanDone /\ QualifyingEntries # {} /\ recommended_model # None) =>
        \A i \in QualifyingEntries :
            RLeq(all_models_data[RecEntry].avg_power,
                 all_models_data[i].avg_power)

\* C2 as amended: when some model qualifies the recommended model is the
\* qualifying model of greatest average power, and there is a recommended
\* model whenever a qualifying model has positive average power.
C2_RecommendedIsGreatestQualifying ==
    (ScanDone /\ QualifyingEntries # {}) =>
        /\ (\E i \in QualifyingEntries : RGt(all_models_data[i].avg_power, Zero))
               => recommended_model # None
        /\ recommended_model # None =>
               /\ RecEntry \in QualifyingEntries
               /\ \A i \in QualifyingEntries \ {RecEntry} :
                      RLt(all_models_data[i].avg_power,
                          all_models_data[RecEntry].avg_power)

\* C2 witness: exactly two models qualify and the more powerful of them is
\* the recommendation.
C2_Witness ==
    /\ pc = "done"
    /\ Cardinality(QualifyingEntries) = 2
    /\ recommended_model = "Musson 2000"

\* C3: a cascade suggestion has a count of at least 2, the count times the
\* greatest average power in the catalogue covers the load with margin, and
\* the suggested model is one of that greatest average power.
C3_CascadeCoversLoad ==
    cascade_option # NoCascade =>
        /\ cascade_option.count >= 2
        /\ RLeq(required_power_with_margin,
                RMul(Num(cascade_option.count), TopAvgPower))
        /\ \E i \in Entries :
              /\ all_models_data[i].model = cascade_option.model
              /\ all_models_data[i].avg_power = TopAvgPower

\* C3 witness: a cascade of three or more furnaces was suggested.
C3_Witness ==
    /\ pc = "done"
    /\ cascade_option # NoCascade
    /\ cascade_option.count >= 3

\* C4: a cascade suggestion is present only with no recommended model, a
\* positive heat loss and a positive greatest average power; so never
\* together with a recommendation, never for a heat loss of 0 and never when
\* the most powerful model's average power is 0.
C4_CascadeOnlyAsFallback ==
    cascade_option # NoCascade =>
        /\ recommended_model = None
        /\ RGt(heat_loss_kw, Zero)
        /\ RGt(TopAvgPower, Zero)

\* C4 witness: the fallback was taken and produced a cascade of two.
C4_Witness ==
    /\ pc = "done"
    /\ recommended_model = None
    /\ RGt(heat_loss_kw, Zero)
    /\ cascade_option.count = 2

\* Indices i of the recommended curve such that every sample up to and
\* including i meets the load.
MetPrefix ==
    LET d == all_models_data[RecEntry]
    IN {i \in 1..Len(d.time) :
           \A j \in 1..i : RLeq(required_power_with_margin, d.power[j])}

\* C5: after the walk the refuel interval is the time of the last sample of
\* the recommended curve up to which every sample meets the load, and 0 when
\* not even the first sample does.
C5_RefuelIsLastMetSample ==
    (WalkDone /\ recommended_model # None) =>
        IF MetPrefix = {}
        THEN refuel_time = Zero
        ELSE \E i \in MetPrefix :
                /\ \A j \in MetPrefix : j <= i
                /\ RMul(refuel_time, Num(2)) = Num(i - 1)

\* C5 witness: the walk stopped inside the curve, at a sample below the load.
C5_Witness ==
    /\ pc = "done"
    /\ recommended_model # None
    /\ RGt(refuel_time, Zero)
    /\ RLt(refuel_time, burn_hours)
    /\ \E i \in 1..Len(all_models_data[RecEntry].power) :
          RLt(all_models_data[RecEntry].power[i], required_power_with_margin)

\* C6 as stated: with a burn duration of 0 the curve computation does not
\* raise, and every average power and power sample it yields is 0.
C6_ZeroDurationIsDefined ==
    (burn_hours = Zero /\ pc \notin {"start", "scan"}) =>
        /\ pc # "raised"
        /\ \A i \in Entries :
              /\ all_models_data[i].avg_power = Zero
              /\ \A j \in 1..Len(all_models_data[i].power) :
                    all_models_data[i].power[j] = Zero

\* Burn durations on the 0.5 h grid of the samples.
OnHalfHourGrid(h) == RMul(h, Num(2))[2] = 1

\* What C7 says of one computed curve e for the burn duration h.
CurveIsLinearDecay(e, h) ==
    LET n == Len(e.time)
    IN /\ Len(e.power) = n
       /\ n = RFloor(RMul(h, Num(2))) + 1
       /\ \A i \in 1..n :
             /\ RMul(e.time[i], Num(2)) = Num(i - 1)
             /\ RMul(e.power[i], h) =
                    RMul(RAdd(e.avg_power, e.avg_power), RSub(h, e.time[i]))
       /\ e.power[1] = RAdd(e.avg_power, e.avg_power)
       /\ \A i \in 1..(n - 1) : RLeq(e.power[i + 1], e.power[i])
       /\ e.time[n] = h
       /\ e.power[n] = Zero

\* The curve the scan computed last; every curve is the last one in the
\* state that follows its computation.
CurveJustComputed ==
    pc \in {"scan", "cascade"} /\ all_models_data # <<>>

\* C7 as stated: for every burn duration > 0 the samples run from 0 to the
\* burn duration inclusive in steps of 0.5 h, decay linearly from twice the
\* average power and end at the burn duration with power 0.
C7_CurveForEveryDuration ==
    (CurveJustComputed /\ RGt(burn_hours, Zero)) =>
        CurveIsLinearDecay(all_models_data[Len(all_models_data)], burn_hours)

\* C7 as amended: the same, for every burn duration > 0 that is a multiple
\* of 0.5 h.
C7_CurveOnHalfHourGrid ==
    (CurveJustComputed /\ RGt(burn_hours, Zero) /\ OnHalfHourGrid(burn_hours)) =>
        CurveIsLinearDecay(all_models_data[Len(all_models_data)], burn_hours)

\* C7 witness: all five curves were computed for a 24 h burn with a
\* non-empty chamber.
C7_Witness ==
    /\ pc = "cascade"
    /\ Len(all_models_data) = Len(MUSSON_MODELS)
    /\ burn_hours = Num(24)
    /\ RGt(all_models_data[1].power[1], Zero)

\* C8: the heat loss is exactly 0 whenever t_in <= t_out, and never
\* negative.
C8_HeatLossZeroOrPositive ==
    pc # "start" =>
        /\ t_in <= t_out => heat_loss_kw = Zero
        /\ RLeq(Zero, heat_loss_kw)

\* C8 witness: the heat loss was computed for a room colder inside than out.
C8_Witness ==
    /\ pc = "scan"
    /\ t_in < t_out
    /\ heat_loss_kw = Zero

\* C9: with a recommended model and an allowed burn duration the refuel
\* interval is at least half of the burn duration.
C9_RefuelAtLeastHalfBurn ==
    (WalkDone /\ recommended_model # None /\ burn_hours \in AllowedBurnHours) =>
        RLeq(RMul(burn_hours, Half), refuel_time)

\* C9 witness: the refuel interval is exactly half of an allowed burn
\* duration.
C9_Witness ==
    /\ pc = "done"
    /\ recommended_model # None
    /\ burn_hours \in AllowedBurnHours
    /\ refuel_time = RMul(burn_hours, Half)

\* C10: with a non-empty chamber, positive efficiency and positive burn
\* duration the scan ends with no recommendation or with the model of the
\* largest chamber.
C10_NoneOrLargestModel ==
    (ScanDone /\ RGt(fill_fraction, Zero) /\ RGt(efficiency, Zero)
              /\ RGt(burn_hours, Zero)) =>
        recommended_model \in {None, "Musson 2000"}

\* C10 witness: the largest model is recommended although the smallest one
\* covers the load as well.
C10_Witness ==
    /\ pc = "done"
    /\ recommended_model = "Musson 2000"
    /\ 1 \in QualifyingEntries

====
